---- MODULE Spec2Model ----
(***************************************************************************)
(* A model of src/Code/Project.cpp: the hospital patient monitoring        *)
(* scheduler (Patient, FalseAlarmDetector, AlertProcessor and              *)
(* HospitalScheduler).                                                     *)
(*                                                                         *)
(* Numbers.  A vital-sign value is a C++ double.  A reading keeps its      *)
(* value as the decimal it was written with, in tenths of its unit (36.1   *)
(* degrees is 361, 200 bpm is 2000).  assessRisk only compares a value     *)
(* with decimal literals, and the conversion of a decimal to a double is   *)
(* monotone, so it compares the tenths.  detectTrend and the               *)
(* FalseAlarmDetector compute: there DoubleOf gives the double of a        *)
(* reading and FAdd, FSub, FMul, FDiv and FSqrt are the IEEE 754 binary64  *)
(* operations of the C++ code, each rounded to nearest, ties to even.      *)
(*                                                                         *)
(* The queue.  std::priority_queue is modelled as the array it keeps and   *)
(* the heap algorithms of libstdc++ (std::push_heap, std::pop_heap).       *)
(***************************************************************************)
EXTENDS Integers, Sequences, FiniteSets, TLC

VARIABLES
    patients,              \* HospitalScheduler::patients: ids of the registered patients
    devices,               \* HospitalScheduler::devices
    vitalHistory,          \* Patient::vitalHistory, per patient and vital
    currentRiskLevel,      \* Patient::currentRiskLevel, per patient
    alertQueue,            \* AlertProcessor::alertQueue: the heap's array
    totalAlertsProcessed,  \* AlertProcessor::totalAlertsProcessed
    falseAlarmsFiltered,   \* AlertProcessor::falseAlarmsFiltered
    now,                   \* std::chrono::system_clock::now(), in ticks of the clock
    nextSeq,               \* history: number of addAlert calls so far
    lastHandled,           \* history: what the last handleAlert saw
    drainPrev,             \* history: the alert handled just before, if no addAlert since
    appended,              \* history: every reading addVitalReading was given, in order
    call,                  \* the call under way or last made, and its arguments
    ret                    \* what the call did and what its caller got from it

vars == <<patients, devices, vitalHistory, currentRiskLevel, alertQueue,
          totalAlertsProcessed, falseAlarmsFiltered, now, nextSeq,
          lastHandled, drainPrev, appended, call, ret>>

----------------------------------------------------------------------------
(* enum class Priority and enum class VitalSign *)

CRITICAL == 1
HIGH == 2
MEDIUM == 3
LOW == 4

Priority == {CRITICAL, HIGH, MEDIUM, LOW}

VitalSign == {"HEART_RATE", "BLOOD_PRESSURE", "OXYGEN_SATURATION",
              "TEMPERATURE", "RESPIRATORY_RATE"}

\* an absent value: lastHandled, drainPrev, call and ret hold <<>> or <<v>>
None == <<>>

----------------------------------------------------------------------------
(* Bounds of the model *)

\* addAlert calls in a run of the AlertProcessor on its own
MaxAlerts == 4

\* The patient ids a reading may carry; the patients that may be registered
PatientIds == {1, 2}

\* createdAt of the alerts handed to addAlert directly
CreatedAts == {0, 1, 2}

\* addVitalReading calls in a run that fills one history past its limit
MaxAppends == 210

\* In such a run every k-th reading is of a second vital, k up to MaxPeriod
MaxPeriod == 3

\* assessRisk is applied to every value from -2.0 to MaxRiskValue / 10
MaxRiskValue == 2100

\* The readings of a history detectTrend is applied to, 8.4, 16.5 and 24.5,
\* and how many
TrendValues == {84, 165, 245}
MaxTrendLen == 6

\* The readings of a vector isLikelyFalseAlarm is applied to, 75.0 and 84.9,
\* and how many; the vector may start as BoundaryValues or as ThresholdValues
FAValues == {750, 849}
MaxWindow == 7
BoundaryValues == <<750, 790, 770, 780, 810>>
ThresholdValues == <<440, 520, 420, 450, 510, 450, 490, 460, 280>>

\* The readings handed to processVitalReading: <<patient, vital, value>>
ReadingSamples ==
    {<<1, "HEART_RATE", 750>>, <<1, "HEART_RATE", 2000>>,
     <<1, "TEMPERATURE", 320>>, <<2, "HEART_RATE", 2000>>}

\* processVitalReading calls for registered patients in a run of the scheduler
MaxReadings == 5

\* The ids addPatient is called with; a reading of another id is of no
\* registered patient
NewPatientIds == {1}

\* The readings of the devices in a monitoring cycle, by vital: the base
\* value with no noise, and the base value with a spike of 30 (of -30 for the
\* heart rate and the oxygen saturation; none for the temperature)
GeneratedSamples ==
    [v \in VitalSign |->
        CASE v = "HEART_RATE" -> <<750, 450>>
          [] v = "BLOOD_PRESSURE" -> <<1200, 1500>>
          [] v = "OXYGEN_SATURATION" -> <<980, 680>>
          [] v = "TEMPERATURE" -> <<368, 368>>
          [] v = "RESPIRATORY_RATE" -> <<160, 160>>]

\* Readings in a run with monitoring cycles: no cycle starts that would pass it
MaxCycleReadings == 9

\* The readings of simulateEmergency in such a run, <<patient, vital, value>>
EmergencySamples ==
    {<<1, "HEART_RATE", 2000>>, <<1, "TEMPERATURE", 320>>, <<2, "HEART_RATE", 2000>>}

\* The heart rates of a history close to 75: 74.0, 75.0 and 76.0; how many of
\* them come before a heart rate of SpikeValue / 10
ClusterValues == {740, 750, 760}
PriorReadings == 5
SpikeValue == 2000

\* The calls of simulateEmergency in a run
MaxEmergencyCalls == 3

\* A run in which the heart rate of patient 1 climbs, its k-th reading being
\* ClimbingValue(k) / 10, with one reading each of OtherReadings,
\* <<patient, vital, value>>, somewhere among them; the readings of the run
MaxWindowReadings == 13
ClimbingValue(k) == 1200 + 10 * k
OtherReadings == {<<1, "BLOOD_PRESSURE", 1700>>, <<2, "HEART_RATE", 1300>>}

\* A run in which the heart rates of patient 1 are 25.0, 75.0 and 200.0 in any
\* order; the readings of the run
CriticalValues == {250, 750, 2000}
MaxCriticalReadings == 7

\* The values, in tenths, of the readings that enter the arithmetic
DoubleValues ==
    FAValues \cup TrendValues \cup {r[3] : r \in ReadingSamples} \cup ClusterValues
             \cup {ClimbingValue(k) : k \in 1..MaxWindowReadings}
             \cup {r[3] : r \in OtherReadings} \cup CriticalValues
             \cup {GeneratedSamples[v][i] : v \in VitalSign, i \in {1, 2}}
             \cup {BoundaryValues[i] : i \in 1..Len(BoundaryValues)}
             \cup {ThresholdValues[i] : i \in 1..Len(ThresholdValues)}

----------------------------------------------------------------------------
(* struct Alert *)

\* Alert::Alert: createdAt is the clock at construction, acknowledged is false.
\* seq is not a field of the program: it numbers the addAlert calls.
Alert(pid, p, msg, vital, t) ==
    [patientId |-> pid, priority |-> p, message |-> msg, relatedVital |-> vital,
     createdAt |-> t, acknowledged |-> FALSE, seq |-> 0]

\* AlertComparator::operator(): TRUE when a comes after b
AlertComparatorNoTime(a, b) ==
    a.priority > b.priority

AlertComparator(a, b) ==
    IF a.priority # b.priority
    THEN a.priority > b.priority
    ELSE a.createdAt > b.createdAt

----------------------------------------------------------------------------
(* std::priority_queue<shared_ptr<Alert>, vector<...>, AlertComparator>.    *)
(* The vector c is a sequence; the indices of the C++ code are 0-based, so  *)
(* element i of the code is c[i + 1].                                       *)

RECURSIVE PushHeap(_, _, _, _)
\* std::__push_heap(first, holeIndex, topIndex, value, comp)
PushHeap(c, holeIndex, topIndex, value) ==
    LET parent == (holeIndex - 1) \div 2 IN
    IF holeIndex > topIndex /\ AlertComparator(c[parent + 1], value)
    THEN PushHeap([c EXCEPT ![holeIndex + 1] = c[parent + 1]], parent, topIndex, value)
    ELSE [c EXCEPT ![holeIndex + 1] = value]

RECURSIVE AdjustLoop(_, _, _, _)
\* the while loop of std::__adjust_heap: <<c, holeIndex, secondChild>> after it
AdjustLoop(c, holeIndex, secondChild, len) ==
    IF secondChild < (len - 1) \div 2
    THEN LET sc0 == 2 * (secondChild + 1)
             sc == IF AlertComparator(c[sc0 + 1], c[sc0]) THEN sc0 - 1 ELSE sc0
         IN AdjustLoop([c EXCEPT ![holeIndex + 1] = c[sc + 1]], sc, sc, len)
    ELSE <<c, holeIndex, secondChild>>

\* std::__adjust_heap(first, holeIndex, len, value, comp)
AdjustHeap(c, holeIndex, len, value) ==
    LET l == AdjustLoop(c, holeIndex, holeIndex, len)
        c1 == l[1]
        hole1 == l[2]
        sc1 == l[3]
        even == (len % 2 = 0) /\ (sc1 = (len - 2) \div 2)
        sc2 == 2 * (sc1 + 1)
        c2 == IF even THEN [c1 EXCEPT ![hole1 + 1] = c1[sc2]] ELSE c1
        hole2 == IF even THEN sc2 - 1 ELSE hole1
    IN PushHeap(c2, hole2, holeIndex, value)

\* priority_queue::push: c.push_back(x); std::push_heap(c.begin(), c.end(), comp)
QueuePush(c, x) ==
    PushHeap(Append(c, x), Len(c), 0, x)

\* priority_queue::top: c.front()
QueueTop(c) == c[1]

\* priority_queue::pop: std::pop_heap(c.begin(), c.end(), comp); c.pop_back()
QueuePop(c) ==
    IF Len(c) > 1
    THEN LET last == Len(c) - 1
             value == c[last + 1]
             c0 == [c EXCEPT ![last + 1] = c[1]]
         IN SubSeq(AdjustHeap(c0, 0, last, value), 1, last)
    ELSE SubSeq(c, 1, Len(c) - 1)

----------------------------------------------------------------------------
(* class AlertProcessor *)

\* AlertProcessor::checkResponseTimeRequirement
checkResponseTimeRequirementStrict(priority, responseTimeMs) ==
    CASE priority = CRITICAL -> responseTimeMs < 2000
      [] priority = HIGH -> responseTimeMs < 30000
      [] priority = MEDIUM -> responseTimeMs < 300000
      [] priority = LOW -> responseTimeMs < 3600000
      [] OTHER -> TRUE

checkResponseTimeRequirement(priority, responseTimeMs) ==
    CASE priority = CRITICAL -> responseTimeMs <= 2000
      [] priority = HIGH -> responseTimeMs <= 30000
      [] priority = MEDIUM -> responseTimeMs <= 300000
      [] priority = LOW -> responseTimeMs <= 3600000
      [] OTHER -> TRUE

\* std::chrono::system_clock counts in ticks shorter than a millisecond
\* (nanoseconds in libstdc++); the model's clock has TicksPerMs of them in a
\* millisecond.  duration_cast<milliseconds> divides, rounding towards zero.
TicksPerMs == 2

durationCastMs(ticks) ==
    IF ticks >= 0 THEN ticks \div TicksPerMs ELSE -((-ticks) \div TicksPerMs)

\* AlertProcessor::handleAlert: what it logs for the alert
handleAlert(alert) ==
    LET responseTime == durationCastMs(now - alert.createdAt) IN
    [alert |-> alert, responseTime |-> responseTime,
     withinTimeRequirement |-> checkResponseTimeRequirement(alert.priority, responseTime)]

\* AlertProcessor::addAlert, as a change of the queue
addAlert(c, alert, n) ==
    QueuePush(c, [alert EXCEPT !.seq = n])

\* AlertProcessor::processNextAlert, as a change of the AlertProcessor; first
\* without the test of alertQueue.empty() ...
processNextAlertUnguarded ==
    /\ alertQueue' = QueuePop(alertQueue)
    /\ lastHandled' = IF alertQueue # <<>> THEN <<handleAlert(QueueTop(alertQueue))>>
                      ELSE lastHandled
    /\ drainPrev' = lastHandled
    /\ totalAlertsProcessed' = totalAlertsProcessed + 1

\* ... putting back an alert that is late
processNextAlertRetry ==
    IF alertQueue # <<>>
    THEN /\ alertQueue' = IF handleAlert(QueueTop(alertQueue)).withinTimeRequirement
                          THEN QueuePop(alertQueue)
                          ELSE QueuePush(QueuePop(alertQueue), QueueTop(alertQueue))
         /\ lastHandled' = <<handleAlert(QueueTop(alertQueue))>>
         /\ drainPrev' = lastHandled
         /\ totalAlertsProcessed' = totalAlertsProcessed + 1
    ELSE UNCHANGED <<alertQueue, lastHandled, drainPrev, totalAlertsProcessed>>

\* ... not counting the alert it handles
processNextAlertUncounted ==
    IF alertQueue # <<>>
    THEN /\ alertQueue' = QueuePop(alertQueue)
         /\ lastHandled' = <<handleAlert(QueueTop(alertQueue))>>
         /\ drainPrev' = lastHandled
         /\ totalAlertsProcessed' = totalAlertsProcessed
    ELSE UNCHANGED <<alertQueue, lastHandled, drainPrev, totalAlertsProcessed>>

processNextAlert ==
    IF alertQueue # <<>>
    THEN /\ alertQueue' = QueuePop(alertQueue)
         /\ lastHandled' = <<handleAlert(QueueTop(alertQueue))>>
         /\ drainPrev' = lastHandled
         /\ totalAlertsProcessed' = totalAlertsProcessed + 1
    ELSE UNCHANGED <<alertQueue, lastHandled, drainPrev, totalAlertsProcessed>>

\* AlertProcessor::processNextAlert called on its own
ProcessNextAlert ==
    /\ processNextAlert
    /\ UNCHANGED <<patients, devices, vitalHistory, currentRiskLevel,
                   falseAlarmsFiltered, now, nextSeq, appended, call, ret>>

\* AlertProcessor::addAlert called with an alert built earlier, at time t
AddAlert(p, t) ==
    /\ nextSeq < MaxAlerts
    /\ t <= now
    /\ alertQueue' = addAlert(alertQueue, Alert(1, p, <<"Test">>, "HEART_RATE", t), nextSeq + 1)
    /\ nextSeq' = nextSeq + 1
    /\ drainPrev' = None
    /\ lastHandled' = None
    /\ UNCHANGED <<patients, devices, vitalHistory, currentRiskLevel,
                   totalAlertsProcessed, falseAlarmsFiltered, now, appended, call, ret>>

NoHistory == [p \in PatientIds |-> [v \in VitalSign |-> <<>>]]

\* AlertProcessor::AlertProcessor, and nothing else in use
InitQueue ==
    /\ patients = {}
    /\ devices = <<>>
    /\ vitalHistory = NoHistory
    /\ currentRiskLevel = [p \in PatientIds |-> LOW]
    /\ alertQueue = <<>>
    /\ totalAlertsProcessed = 0
    /\ falseAlarmsFiltered = 0
    /\ now = 2
    /\ nextSeq = 0
    /\ lastHandled = None
    /\ drainPrev = None
    /\ appended = <<>>
    /\ call = None
    /\ ret = None

NextQueue ==
    \/ \E p \in Priority, t \in CreatedAts : AddAlert(p, t)
    \/ ProcessNextAlert

SpecQueue == InitQueue /\ [][NextQueue]_vars

----------------------------------------------------------------------------
(* The AlertProcessor under a running clock: alerts are made and added at   *)
(* the time of the call, and time passes between the calls.  call is the    *)
(* last call of the AlertProcessor with the queue it found; ret is what the *)
(* call handled, and how many calls in a row have found the queue empty.    *)

\* The times, in ms, the clock is read at, and one a tick after 2000 ms
ClockMs == {0, 1500, 2000, 3000, 30000, 300000, 3600000, 3600001}
Clock == {ms * TicksPerMs : ms \in ClockMs} \cup {2000 * TicksPerMs + 1}

\* addAlert calls in a run, and calls in a row that find the queue empty
MaxQueued == 2
MaxEmptyCalls == 3

\* AlertProcessor::processAllAlerts with an `if` for the `while`
processAllAlertsOnce(c, handled) ==
    IF c # <<>>
    THEN [queue |-> QueuePop(c), handled |-> Append(handled, handleAlert(QueueTop(c)))]
    ELSE [queue |-> c, handled |-> handled]

RECURSIVE processAllAlerts(_, _)
\* AlertProcessor::processAllAlerts: the loop, from the queue c with handled
\* handed to handleAlert so far, to the queue it leaves and all it handled
processAllAlerts(c, handled) ==
    IF c # <<>>
    THEN processAllAlerts(QueuePop(c), Append(handled, handleAlert(QueueTop(c))))
    ELSE [queue |-> c, handled |-> handled]

\* the history variables after the handleAlert calls of handled
lastHandledAfter(handled) ==
    IF handled = <<>> THEN lastHandled ELSE <<handled[Len(handled)]>>

drainPrevAfter(handled) ==
    CASE Len(handled) = 0 -> drainPrev
      [] Len(handled) = 1 -> lastHandled
      [] OTHER -> <<handled[Len(handled) - 1]>>

EmptyCallsBefore == IF ret = None THEN 0 ELSE ret[1].emptyCalls

\* auto alert = std::make_shared<Alert>(...); processor.addAlert(alert)
AddAlertNow(p) ==
    /\ nextSeq < MaxQueued
    /\ alertQueue' = addAlert(alertQueue, Alert(1, p, <<"Test">>, "HEART_RATE", now), nextSeq + 1)
    /\ nextSeq' = nextSeq + 1
    /\ drainPrev' = None
    /\ lastHandled' = None
    /\ call' = <<[op |-> "addAlert", queued |-> alertQueue]>>
    /\ ret' = <<[handled |-> <<>>, emptyCalls |-> 0]>>
    /\ UNCHANGED <<patients, devices, vitalHistory, currentRiskLevel,
                   totalAlertsProcessed, falseAlarmsFiltered, now, appended>>

\* processor.processNextAlert()
CallProcessNextAlert ==
    /\ alertQueue = <<>> => EmptyCallsBefore < MaxEmptyCalls
    /\ processNextAlert
    /\ call' = <<[op |-> "processNextAlert", queued |-> alertQueue]>>
    /\ ret' = <<[handled |-> IF alertQueue # <<>> THEN <<handleAlert(QueueTop(alertQueue))>>
                             ELSE <<>>,
                 emptyCalls |-> IF alertQueue # <<>> THEN 0 ELSE EmptyCallsBefore + 1]>>
    /\ UNCHANGED <<patients, devices, vitalHistory, currentRiskLevel,
                   falseAlarmsFiltered, now, nextSeq, appended>>

\* processor.processAllAlerts()
ProcessAllAlerts ==
    /\ \E r \in {processAllAlerts(alertQueue, <<>>)} :
          /\ alertQueue' = r.queue
          /\ totalAlertsProcessed' = totalAlertsProcessed + Len(r.handled)
          /\ lastHandled' = lastHandledAfter(r.handled)
          /\ drainPrev' = drainPrevAfter(r.handled)
          /\ ret' = <<[handled |-> r.handled, emptyCalls |-> 0]>>
    /\ call' = <<[op |-> "processAllAlerts", queued |-> alertQueue]>>
    /\ UNCHANGED <<patients, devices, vitalHistory, currentRiskLevel,
                   falseAlarmsFiltered, now, nextSeq, appended>>

\* time passes: the next reading of the clock is t
Tick(t) ==
    /\ t > now
    /\ now' = t
    /\ UNCHANGED <<patients, devices, vitalHistory, currentRiskLevel, alertQueue,
                   totalAlertsProcessed, falseAlarmsFiltered, nextSeq, lastHandled,
                   drainPrev, appended, call, ret>>

\* AlertProcessor::AlertProcessor, the clock at its first reading
InitProcessor ==
    /\ patients = {}
    /\ devices = <<>>
    /\ vitalHistory = NoHistory
    /\ currentRiskLevel = [p \in PatientIds |-> LOW]
    /\ alertQueue = <<>>
    /\ totalAlertsProcessed = 0
    /\ falseAlarmsFiltered = 0
    /\ now = 0
    /\ nextSeq = 0
    /\ lastHandled = None
    /\ drainPrev = None
    /\ appended = <<>>
    /\ call = None
    /\ ret = None

NextProcessor ==
    \/ \E p \in Priority : AddAlertNow(p)
    \/ CallProcessNextAlert
    \/ ProcessAllAlerts
    \/ \E t \in Clock : Tick(t)

SpecProcessor == InitProcessor /\ [][NextProcessor]_vars

----------------------------------------------------------------------------
(* Natural numbers of any size: the sequence of their digits in base 2^15, *)
(* lowest first, the highest not 0; <<>> is 0.  The operators on them are  *)
(* written without recursion over the digits where that is possible.       *)

Base == 32768

Pow2(r) == <<1, 2, 4, 8, 16, 32, 64, 128, 256, 512, 1024, 2048, 4096, 8192, 16384>>[r + 1]

Digit(a, i) == IF i <= Len(a) THEN a[i] ELSE 0

\* the function f on 1..n, as the sequence of its values
AsSeq(f) == f \o <<>>

Zeros(n) == AsSeq([i \in 1..n |-> 0])

\* a without its leading zeros
BigNorm(a) ==
    IF a = <<>> THEN <<>>
    ELSE LET nz == {i \in 1..Len(a) : a[i] # 0}
         IN IF nz = {} THEN <<>>
            ELSE SubSeq(a, 1, CHOOSE t \in nz : \A j \in nz : j <= t)

\* the int n >= 0, which has at most 3 digits
BigOfInt(n) == BigNorm(<<n % Base, (n \div Base) % Base, n \div (Base * Base)>>)

\* a + b: there is a carry into digit i when a digit below it overflows and
\* the digits between are all Base - 1
BigAdd(a, b) ==
    IF a = <<>> THEN BigNorm(b)
    ELSE IF b = <<>> THEN BigNorm(a)
    ELSE LET n == IF Len(a) < Len(b) THEN Len(b) ELSE Len(a)
             t == AsSeq([i \in 1..(n + 1) |-> Digit(a, i) + Digit(b, i)])
         IN BigNorm(AsSeq([i \in 1..(n + 1) |->
                       (t[i] + IF \E j \in 1..(i - 1) :
                                      t[j] >= Base /\ \A k \in (j + 1)..(i - 1) : t[k] = Base - 1
                               THEN 1 ELSE 0) % Base]))

\* a - b for a >= b: a digit borrows when a digit below it is negative and
\* the digits between are all 0
BigSub(a, b) ==
    IF a = <<>> \/ b = <<>> THEN a
    ELSE LET t == AsSeq([i \in 1..Len(a) |-> a[i] - Digit(b, i)])
         IN BigNorm(AsSeq([i \in 1..Len(a) |->
                       (t[i] + Base - IF \E j \in 1..(i - 1) :
                                             t[j] < 0 /\ \A k \in (j + 1)..(i - 1) : t[k] = 0
                                      THEN 1 ELSE 0) % Base]))

\* -1, 0 or 1 as a is less than, equal to or greater than b
BigCmp(a, b) ==
    IF Len(a) # Len(b) THEN (IF Len(a) < Len(b) THEN -1 ELSE 1)
    ELSE LET df == {i \in 1..Len(a) : a[i] # b[i]}
         IN IF df = {} THEN 0
            ELSE LET t == CHOOSE i \in df : \A j \in df : j <= i
                 IN IF a[t] < b[t] THEN -1 ELSE 1

\* a * k for 0 <= k < Base: the low halves of the products of the digits,
\* plus their high halves one digit up
BigMulSmall(a, k) ==
    IF a = <<>> \/ k = 0 THEN <<>>
    ELSE BigAdd(AsSeq([i \in 1..Len(a) |-> (a[i] * k) % Base]),
                AsSeq([i \in 1..(Len(a) + 1) |->
                         IF i = 1 THEN 0 ELSE (a[i - 1] * k) \div Base]))

RECURSIVE BigMulFrom(_, _, _)
BigMulFrom(a, b, j) ==
    IF j > Len(b) THEN <<>>
    ELSE BigAdd(Zeros(j - 1) \o BigMulSmall(a, b[j]), BigMulFrom(a, b, j + 1))

BigMul(a, b) == IF a = <<>> \/ b = <<>> THEN <<>> ELSE BigMulFrom(a, b, 1)

\* a * 2^n
BigShl(a, n) == IF a = <<>> THEN <<>> ELSE Zeros(n \div 15) \o BigMulSmall(a, Pow2(n % 15))

\* a \div 2^n
BigShr(a, n) ==
    LET q == n \div 15
        r == n % 15
    IN IF a = <<>> THEN <<>>
       ELSE BigNorm(AsSeq([i \in 1..(Len(a) - q) |->
                             IF r = 0 THEN a[i + q]
                             ELSE (a[i + q] \div Pow2(r))
                                  + (Digit(a, i + q + 1) % Pow2(r)) * Pow2(15 - r)]))

\* the number of binary digits of a
BigBits(a) ==
    IF a = <<>> THEN 0
    ELSE 15 * (Len(a) - 1) + CHOOSE k \in 1..15 : Pow2(k - 1) <= a[Len(a)] /\ a[Len(a)] < 2 * Pow2(k - 1)

BigOdd(a) == a # <<>> /\ a[1] % 2 = 1

RECURSIVE DigitDown(_, _, _)
\* the largest digit not above q whose product with d is at most r
DigitDown(r, d, q) ==
    IF BigCmp(BigMulSmall(d, q), r) > 0 THEN DigitDown(r, d, q - 1) ELSE q

\* r \div d for r < Base * d: estimated from the two highest digits of r and
\* the highest of d, and then corrected
QuotientDigit(r, d) ==
    IF BigCmp(r, d) < 0 THEN 0
    ELSE LET est == (Digit(r, Len(d) + 1) * Base + Digit(r, Len(d))) \div d[Len(d)]
         IN DigitDown(r, d, IF est < Base THEN est ELSE Base - 1)

RECURSIVE BigDivFrom(_, _, _, _)
\* long division by d of the digits of n from the i-th down, r being the
\* remainder of the digits above them: the digits of the quotient, highest
\* first, and the remainder
BigDivFrom(n, d, i, r) ==
    IF i = 0 THEN <<<<>>, r>>
    ELSE LET r1 == BigNorm(<<n[i]>> \o r)
             q == QuotientDigit(r1, d)
             rest == BigDivFrom(n, d, i - 1, BigSub(r1, BigMulSmall(d, q)))
         IN << <<q>> \o rest[1], rest[2] >>

Reverse(s) == AsSeq([i \in 1..Len(s) |-> s[Len(s) + 1 - i]])

\* <<n \div d, n % d>> for d # 0 and Len(n) >= Len(d): the Len(d) - 1
\* highest digits of n are less than d
BigDivMod(n, d) ==
    LET i == Len(n) - Len(d) + 1
        qr == BigDivFrom(n, d, i, BigNorm(SubSeq(n, i + 1, Len(n))))
    IN <<BigNorm(Reverse(qr[1])), qr[2]>>

\* the integer square root of the int v, Base^2 / 4 <= v < Base^2: its 8
\* highest binary digits, and then the 7 below them
IntSqrt(v) ==
    LET hi == CHOOSE a \in 128..255 :
                  (a * 128) * (a * 128) <= v /\ v < ((a + 1) * 128) * ((a + 1) * 128)
    IN CHOOSE t \in (hi * 128)..(hi * 128 + 127) : t * t <= v /\ v < (t + 1) * (t + 1)

RECURSIVE Heron(_, _)
\* the integer square root of n by Heron's method, from x at or above it
Heron(n, x) ==
    LET y == BigShr(BigAdd(x, BigDivMod(n, x)[1]), 1)
    IN IF BigCmp(y, x) >= 0 THEN x ELSE Heron(n, y)

\* the integer square root of n, for n of 8 digits with the two highest
\* making at least Base^2 / 4
BigSqrt(n) ==
    Heron(n, BigSub(BigShl(<<IntSqrt(n[8] * Base + n[7]) + 1>>, 45), <<1>>))

----------------------------------------------------------------------------
(* double: the finite IEEE 754 binary64 numbers, rounded to nearest, ties to *)
(* even.  [neg, m, e] is (-1)^neg * m * 2^e with m of exactly 53 binary      *)
(* digits, or m = 0.  The numbers of the model stay far inside the range of  *)
(* the exponent, so there are no subnormal numbers, infinities or NaNs.      *)

MantissaBits == 53

Zero == [neg |-> FALSE, m |-> <<>>, e |-> 0]

\* the double nearest to (-1)^neg * (M + f) * 2^E, where 0 <= f < 1 and
\* f > 0 exactly when sticky; M has more than 53 digits whenever sticky
FRound(neg, M, E, sticky) ==
    LET L == BigBits(M)
        k == L - MantissaBits
    IN IF M = <<>> THEN Zero
       ELSE IF k <= 0 THEN [neg |-> neg, m |-> BigShl(M, -k), e |-> E + k]
       ELSE LET q == BigShr(M, k)
                rem == BigSub(M, BigShl(q, k))
                c == BigCmp(rem, BigShl(<<1>>, k - 1))
                up == c > 0 \/ (c = 0 /\ (sticky \/ BigOdd(q)))
                q1 == IF up THEN BigAdd(q, <<1>>) ELSE q
            IN IF BigBits(q1) > MantissaBits
               THEN [neg |-> neg, m |-> BigShr(q1, 1), e |-> E + k + 1]
               ELSE [neg |-> neg, m |-> q1, e |-> E + k]

\* the double of an int
FOfInt(n) == FRound(n < 0, BigOfInt(IF n < 0 THEN -n ELSE n), 0, FALSE)

FNeg(a) == IF a.m = <<>> THEN a ELSE [a EXCEPT !.neg = ~a.neg]

\* std::abs
FAbs(a) == [a EXCEPT !.neg = FALSE]

\* a + b
FAdd(a, b) ==
    IF a.m = <<>> THEN b
    ELSE IF b.m = <<>> THEN a
    ELSE LET e0 == IF a.e < b.e THEN a.e ELSE b.e
             A == BigShl(a.m, a.e - e0)
             B == BigShl(b.m, b.e - e0)
             c == BigCmp(A, B)
         IN IF a.neg = b.neg THEN FRound(a.neg, BigAdd(A, B), e0, FALSE)
            ELSE IF c = 0 THEN Zero
            ELSE IF c > 0 THEN FRound(a.neg, BigSub(A, B), e0, FALSE)
            ELSE FRound(b.neg, BigSub(B, A), e0, FALSE)

\* a - b
FSub(a, b) == FAdd(a, FNeg(b))

\* a * b
FMul(a, b) ==
    IF a.m = <<>> \/ b.m = <<>> THEN Zero
    ELSE FRound(a.neg # b.neg, BigMul(a.m, b.m), a.e + b.e, FALSE)

\* a / b for b # 0: the quotient of the mantissas, which is between 1/2 and
\* 2, to 60 binary digits after the point
FDiv(a, b) ==
    IF a.m = <<>> THEN Zero
    ELSE LET qr == BigDivMod(BigShl(a.m, 67), BigShl(b.m, 7))
         IN FRound(a.neg # b.neg, qr[1], a.e - b.e - 60, qr[2] # <<>>)

\* std::sqrt(a) for a >= 0: the integer square root of the mantissa taken
\* with an even exponent and 119 or 120 binary digits
FSqrt(a) ==
    IF a.m = <<>> THEN Zero
    ELSE LET sh == IF a.e % 2 = 0 THEN 66 ELSE 67
             n == BigShl(a.m, sh)
             s == BigSqrt(n)
         IN FRound(FALSE, s, (a.e - sh) \div 2, BigMul(s, s) # n)

\* a < b
FLess(a, b) ==
    IF a.m = <<>> THEN b.m # <<>> /\ ~b.neg
    ELSE IF b.m = <<>> THEN a.neg
    ELSE IF a.neg # b.neg THEN a.neg
    ELSE LET e0 == IF a.e < b.e THEN a.e ELSE b.e
             c == BigCmp(BigShl(a.m, a.e - e0), BigShl(b.m, b.e - e0))
         IN IF a.neg THEN c > 0 ELSE c < 0

\* the double a reading of t tenths holds: the one nearest to t / 10, as the
\* decimal literal gives it
DoubleOf == [t \in DoubleValues |-> FDiv(FOfInt(t), FOfInt(10))]

Abs(x) == IF x < 0 THEN -x ELSE x

----------------------------------------------------------------------------
(* struct VitalReading and class Patient *)

\* VitalReading::VitalReading; value in tenths of the unit.  The timestamp
\* field is never read by the program and is left out.
VitalReading(t, v, pid) ==
    [type |-> t, value |-> v, patientId |-> pid]

\* the size a history is cut back to, Patient::addVitalReading
HistoryLimit == 100

\* Patient::initializeNormalRanges: <<min, max>> in tenths
normalRangesWideTemperature ==
    [v \in VitalSign |->
        CASE v = "HEART_RATE" -> <<600, 1000>>
          [] v = "BLOOD_PRESSURE" -> <<900, 1400>>
          [] v = "OXYGEN_SATURATION" -> <<950, 1000>>
          [] v = "TEMPERATURE" -> <<361, 375>>
          [] v = "RESPIRATORY_RATE" -> <<120, 200>>]

normalRanges ==
    [v \in VitalSign |->
        CASE v = "HEART_RATE" -> <<600, 1000>>
          [] v = "BLOOD_PRESSURE" -> <<900, 1400>>
          [] v = "OXYGEN_SATURATION" -> <<950, 1000>>
          [] v = "TEMPERATURE" -> <<361, 372>>
          [] v = "RESPIRATORY_RATE" -> <<120, 200>>]

\* Patient::addVitalReading, as a change of vitalHistory[reading.type]
addVitalReadingDropNewest(history, reading) ==
    LET h == Append(history, reading) IN
    IF Len(h) > HistoryLimit THEN SubSeq(h, 1, Len(h) - 1) ELSE h

addVitalReading(history, reading) ==
    LET h == Append(history, reading) IN
    IF Len(h) > HistoryLimit THEN Tail(h) ELSE h

\* Patient::assessRisk, the thresholds in tenths
assessRiskOxygenOrder(type, value) ==
    LET range == normalRanges[type] IN
    IF type = "HEART_RATE" /\ (value < 300 \/ value > 1800) THEN CRITICAL
    ELSE IF type = "HEART_RATE" /\ (value < 500 \/ value > 1200) THEN HIGH
    ELSE IF type = "OXYGEN_SATURATION" /\ value < 920 THEN HIGH
    ELSE IF type = "OXYGEN_SATURATION" /\ value < 850 THEN CRITICAL
    ELSE IF type = "BLOOD_PRESSURE" /\ (value < 600 \/ value > 2000) THEN CRITICAL
    ELSE IF type = "BLOOD_PRESSURE" /\ (value < 800 \/ value > 1600) THEN HIGH
    ELSE IF type = "TEMPERATURE" /\ (value < 350 \/ value > 390) THEN HIGH
    ELSE IF type = "TEMPERATURE" /\ (value < 355 \/ value > 385) THEN MEDIUM
    ELSE IF type = "RESPIRATORY_RATE" /\ (value < 80 \/ value > 300) THEN HIGH
    ELSE IF type = "RESPIRATORY_RATE" /\ (value < 100 \/ value > 250) THEN MEDIUM
    ELSE IF value < range[1] \/ value > range[2] THEN MEDIUM
    ELSE LOW

assessRisk(type, value) ==
    LET range == normalRanges[type] IN
    IF type = "HEART_RATE" /\ (value < 300 \/ value > 1800) THEN CRITICAL
    ELSE IF type = "HEART_RATE" /\ (value < 500 \/ value > 1200) THEN HIGH
    ELSE IF type = "OXYGEN_SATURATION" /\ value < 850 THEN CRITICAL
    ELSE IF type = "OXYGEN_SATURATION" /\ value < 920 THEN HIGH
    ELSE IF type = "BLOOD_PRESSURE" /\ (value < 600 \/ value > 2000) THEN CRITICAL
    ELSE IF type = "BLOOD_PRESSURE" /\ (value < 800 \/ value > 1600) THEN HIGH
    ELSE IF type = "TEMPERATURE" /\ (value < 350 \/ value > 390) THEN HIGH
    ELSE IF type = "TEMPERATURE" /\ (value < 355 \/ value > 385) THEN MEDIUM
    ELSE IF type = "RESPIRATORY_RATE" /\ (value < 80 \/ value > 300) THEN HIGH
    ELSE IF type = "RESPIRATORY_RATE" /\ (value < 100 \/ value > 250) THEN MEDIUM
    ELSE IF value < range[1] \/ value > range[2] THEN MEDIUM
    ELSE LOW

RECURSIVE TrendSum(_, _, _)
\* sum in the for loop of Patient::detectTrend after k rounds, the loop
\* starting at index first (0-based)
TrendSum(history, first, k) ==
    IF k = 0 THEN Zero
    ELSE FAdd(TrendSum(history, first, k - 1),
              FSub(DoubleOf[history[first + k].value], DoubleOf[history[first + k - 1].value]))

\* Patient::detectTrend on history = vitalHistory[vital]
detectTrendAnyLength(history) ==
    IF Len(history) < 2 THEN FALSE
    ELSE LET first == IF Len(history) < 5 THEN 1 ELSE Len(history) - 4
             avgChange == FDiv(TrendSum(history, first, Len(history) - first), FOfInt(4))
         IN FLess(FOfInt(2), FAbs(avgChange))

detectTrend(history) ==
    IF Len(history) < 5 THEN FALSE
    ELSE LET sum == TrendSum(history, Len(history) - 4, 4)
             avgChange == FDiv(sum, FOfInt(4))
         IN FLess(FOfInt(2), FAbs(avgChange))

\* the larger of two ints, std::max
Max(a, b) == IF a < b THEN b ELSE a

\* Patient::getRecentReadings on history = vitalHistory[vital]
getRecentReadingsOldest(history, count) ==
    IF history = <<>> THEN <<>>
    ELSE SubSeq(history, 1, Len(history) - Max(0, Len(history) - count))

getRecentReadings(history, count) ==
    IF history = <<>> THEN <<>>
    ELSE LET start == Max(0, Len(history) - count)
         IN SubSeq(history, start + 1, Len(history))

----------------------------------------------------------------------------
(* class FalseAlarmDetector *)

RECURSIVE SumValues(_, _)
\* sum in the loop of calculateMean after its first k readings
SumValues(readings, k) ==
    IF k = 0 THEN Zero
    ELSE FAdd(SumValues(readings, k - 1), DoubleOf[readings[k].value])

\* FalseAlarmDetector::calculateMean
calculateMean(readings) ==
    FDiv(SumValues(readings, Len(readings)), FOfInt(Len(readings)))

RECURSIVE SumSquares(_, _, _)
\* variance in the loop of calculateStandardDeviation after its first k
\* readings; std::pow(x, 2) is the rounded product x * x
SumSquares(readings, mean, k) ==
    IF k = 0 THEN Zero
    ELSE LET diff == FSub(DoubleOf[readings[k].value], mean)
         IN FAdd(SumSquares(readings, mean, k - 1), FMul(diff, diff))

\* FalseAlarmDetector::calculateStandardDeviation
calculateStandardDeviation(readings, mean) ==
    FSqrt(FDiv(SumSquares(readings, mean, Len(readings)), FOfInt(Len(readings))))

\* the thresholds 2.5 and 1.5 of isLikelyFalseAlarm
ThresholdUniform(priority) == FDiv(FOfInt(3), FOfInt(2))

Threshold(priority) ==
    IF priority = CRITICAL THEN FDiv(FOfInt(5), FOfInt(2)) ELSE FDiv(FOfInt(3), FOfInt(2))

\* FalseAlarmDetector::isLikelyFalseAlarm: mean, stdDev and zScore are
\* computed in this order, each once
isLikelyFalseAlarm(alert, recentReadings) ==
    IF Len(recentReadings) < 5 THEN FALSE
    ELSE \E mean \in {calculateMean(recentReadings)} :
         \E stdDev \in {calculateStandardDeviation(recentReadings, mean)} :
            IF stdDev = Zero THEN FALSE
            ELSE \E currentValue \in {DoubleOf[recentReadings[Len(recentReadings)].value]} :
                 \E zScore \in {FAbs(FDiv(FSub(currentValue, mean), stdDev))} :
                    FLess(zScore, Threshold(alert.priority))

----------------------------------------------------------------------------
(* The classes on their own, as TestFramework uses them *)

schedVars == <<patients, devices, currentRiskLevel, alertQueue, totalAlertsProcessed,
               falseAlarmsFiltered, now, nextSeq, lastHandled, drainPrev>>

\* a HospitalScheduler just constructed
SchedulerNew ==
    /\ patients = {}
    /\ devices = <<>>
    /\ currentRiskLevel = [p \in PatientIds |-> LOW]
    /\ alertQueue = <<>>
    /\ totalAlertsProcessed = 0
    /\ falseAlarmsFiltered = 0
    /\ now = 0
    /\ nextSeq = 0
    /\ lastHandled = None
    /\ drainPrev = None

\* Patient patient(1, ...); patient.addVitalReading(reading), the readings
\* numbered as they come, every period-th one a temperature
InitHistory ==
    /\ SchedulerNew
    /\ vitalHistory = NoHistory
    /\ appended = <<>>
    /\ call \in {<<k>> : k \in 0..MaxPeriod}
    /\ ret = None

AddVitalReadingNumbered ==
    /\ Len(appended) < MaxAppends
    /\ LET n == Len(appended) + 1
           type == IF call[1] > 1 /\ n % call[1] = 0 THEN "TEMPERATURE" ELSE "HEART_RATE"
           reading == VitalReading(type, 300 + n, 1)
       IN /\ vitalHistory' = [vitalHistory EXCEPT ![1][type] = addVitalReading(@, reading)]
          /\ appended' = Append(appended, reading)
    /\ UNCHANGED <<schedVars, call, ret>>

NextHistory == AddVitalReadingNumbered

SpecHistory == InitHistory /\ [][NextHistory]_vars

\* Patient patient(1, ...); VitalReading reading(type, value, 1)
InitRisk ==
    /\ SchedulerNew
    /\ vitalHistory = NoHistory
    /\ appended = <<>>
    /\ call \in {<<VitalReading(t, v, 1)>> : t \in VitalSign, v \in -20..MaxRiskValue}
    /\ ret = None

\* Priority risk = patient.assessRisk(reading)
AssessRisk ==
    /\ ret = None
    /\ ret' = <<assessRisk(call[1].type, call[1].value)>>
    /\ UNCHANGED <<schedVars, vitalHistory, appended, call>>

NextRisk == AssessRisk

SpecRisk == InitRisk /\ [][NextRisk]_vars

\* Patient patient(1, ...)
InitTrend ==
    /\ SchedulerNew
    /\ vitalHistory = NoHistory
    /\ appended = <<>>
    /\ call = None
    /\ ret = None

\* patient.addVitalReading(VitalReading(HEART_RATE, v, 1))
AddVitalReadingOf(v) ==
    /\ Len(vitalHistory[1]["HEART_RATE"]) < MaxTrendLen
    /\ vitalHistory' = [vitalHistory EXCEPT ![1]["HEART_RATE"] =
                           addVitalReading(@, VitalReading("HEART_RATE", v, 1))]
    /\ ret' = None
    /\ UNCHANGED <<schedVars, appended, call>>

\* patient.detectTrend(HEART_RATE)
DetectTrend ==
    /\ ret = None
    /\ ret' = <<detectTrend(vitalHistory[1]["HEART_RATE"])>>
    /\ UNCHANGED <<schedVars, vitalHistory, appended, call>>

NextTrend ==
    \/ \E v \in TrendValues : AddVitalReadingOf(v)
    \/ DetectTrend

SpecTrend == InitTrend /\ [][NextTrend]_vars

\* A vector whose last reading is at exactly 1.5 standard deviations, and
\* one whose last reading is at exactly 2.5
BoundaryWindow ==
    [i \in 1..Len(BoundaryValues) |-> VitalReading("HEART_RATE", BoundaryValues[i], 1)]

ThresholdWindow ==
    [i \in 1..Len(ThresholdValues) |-> VitalReading("HEART_RATE", ThresholdValues[i], 1)]

\* std::vector<VitalReading> readings; Alert alert(1, priority, "Test", HEART_RATE)
InitFalseAlarm ==
    /\ SchedulerNew
    /\ vitalHistory = NoHistory
    /\ appended = <<>>
    /\ call \in {<<[alert |-> Alert(1, p, <<"Test">>, "HEART_RATE", 0), recentReadings |-> w]>> :
                    p \in Priority, w \in {<<>>, BoundaryWindow, ThresholdWindow}}
    /\ ret = None

\* readings.emplace_back(HEART_RATE, v, 1)
EmplaceBack(v) ==
    /\ Len(call[1].recentReadings) < MaxWindow
    /\ call' = <<[call[1] EXCEPT !.recentReadings = Append(@, VitalReading("HEART_RATE", v, 1))]>>
    /\ ret' = None
    /\ UNCHANGED <<schedVars, vitalHistory, appended>>

\* bool isFalse = FalseAlarmDetector::isLikelyFalseAlarm(alert, readings)
IsLikelyFalseAlarm ==
    /\ ret = None
    /\ ret' = <<isLikelyFalseAlarm(call[1].alert, call[1].recentReadings)>>
    /\ UNCHANGED <<schedVars, vitalHistory, appended, call>>

NextFalseAlarm ==
    \/ \E v \in FAValues : EmplaceBack(v)
    \/ IsLikelyFalseAlarm

SpecFalseAlarm == InitFalseAlarm /\ [][NextFalseAlarm]_vars

----------------------------------------------------------------------------
(* class HospitalScheduler *)

\* HospitalScheduler::vitalSignToString
vitalSignToString(vital) ==
    CASE vital = "HEART_RATE" -> "Heart Rate"
      [] vital = "BLOOD_PRESSURE" -> "Blood Pressure"
      [] vital = "OXYGEN_SATURATION" -> "Oxygen Saturation"
      [] vital = "TEMPERATURE" -> "Temperature"
      [] vital = "RESPIRATORY_RATE" -> "Respiratory Rate"
      [] OTHER -> "Unknown"

\* static_cast<int>(value) of a value in tenths: towards zero
ToInt(value) ==
    IF value >= 0 THEN value \div 10 ELSE -((-value) \div 10)

\* HospitalScheduler::generateAlertMessage: the parts of the string
generateAlertMessage(reading, priority) ==
    <<vitalSignToString(reading.type), " reading: ", ToInt(reading.value),
      " (Priority: ", priority, ")">>

\* the message of a trend alert, processVitalReading
trendMessage(reading) ==
    <<"Concerning trend detected in ", vitalSignToString(reading.type)>>

\* MedicalDevice::MedicalDevice
MedicalDevice(id, vital, patientId) ==
    [deviceId |-> id, monitoredVital |-> vital, assignedPatient |-> patientId,
     isActive |-> TRUE]

\* HospitalScheduler::createDevicesForPatient, as a change of devices
createDevicesForPatient(d, patientId) ==
    LET d1 == Append(d, MedicalDevice(Len(d), "HEART_RATE", patientId))
        d2 == Append(d1, MedicalDevice(Len(d1), "BLOOD_PRESSURE", patientId))
        d3 == Append(d2, MedicalDevice(Len(d2), "OXYGEN_SATURATION", patientId))
    IN Append(d3, MedicalDevice(Len(d3), "TEMPERATURE", patientId))

\* HospitalScheduler::addPatient(std::make_unique<Patient>(patientId, ...)).
\* Its callers (addPatientsInteractively, runQuickDemo) give each id once.
AddPatient(patientId) ==
    /\ patientId \notin patients
    /\ patients' = patients \cup {patientId}
    /\ vitalHistory' = [vitalHistory EXCEPT ![patientId] = [v \in VitalSign |-> <<>>]]
    /\ currentRiskLevel' = [currentRiskLevel EXCEPT ![patientId] = LOW]
    /\ devices' = createDevicesForPatient(devices, patientId)
    /\ UNCHANGED <<alertQueue, totalAlertsProcessed, falseAlarmsFiltered, now,
                   nextSeq, lastHandled, drainPrev, appended, call, ret>>

\* processVitalReading, the block "if (risk != Priority::LOW)": the queue
\* after it.  history is the patient's history of the vital, the reading
\* appended; t is the clock; n alerts were added before.
afterRiskUnfiltered(c, history, reading, t, n) ==
    LET risk == assessRisk(reading.type, reading.value) IN
    IF risk # LOW
    THEN addAlert(c, Alert(reading.patientId, risk, generateAlertMessage(reading, risk),
                           reading.type, t), n + 1)
    ELSE c

afterRiskEveryReading(c, history, reading, t, n) ==
    LET risk == assessRisk(reading.type, reading.value)
        message == generateAlertMessage(reading, risk)
        alert == Alert(reading.patientId, risk, message, reading.type, t)
        recentReadings == getRecentReadings(history, 10)
    IN IF ~isLikelyFalseAlarm(alert, recentReadings)
       THEN addAlert(c, alert, n + 1)
       ELSE c

afterRisk(c, history, reading, t, n) ==
    LET risk == assessRisk(reading.type, reading.value) IN
    IF risk # LOW
    THEN LET message == generateAlertMessage(reading, risk)
             alert == Alert(reading.patientId, risk, message, reading.type, t)
             recentReadings == getRecentReadings(history, 10)
         IN IF ~isLikelyFalseAlarm(alert, recentReadings)
            THEN addAlert(c, alert, n + 1)
            ELSE c
    ELSE c

\* processVitalReading, the block "if (patient->detectTrend(reading.type))"
afterTrendNotLow(c, history, reading, t, n) ==
    IF assessRisk(reading.type, reading.value) # LOW /\ detectTrend(history)
    THEN addAlert(c, Alert(reading.patientId, MEDIUM, trendMessage(reading),
                           reading.type, t), n + 1)
    ELSE c

afterTrend(c, history, reading, t, n) ==
    IF detectTrend(history)
    THEN addAlert(c, Alert(reading.patientId, MEDIUM, trendMessage(reading),
                           reading.type, t), n + 1)
    ELSE c

\* processVitalReading, the lines it writes to std::cout: one when the
\* false-alarm filter holds the alert back
filteredLine(reading, risk) ==
    <<"[FALSE ALARM FILTERED] Patient ", reading.patientId, ": ",
      generateAlertMessage(reading, risk)>>

\* HospitalScheduler::processVitalReading.  The program returns nothing: call
\* keeps the reading and ret what was done with it, out being the lines the
\* call wrote to std::cout, all that its caller gets from it, and
\* recentReadings the vector handed to isLikelyFalseAlarm, if it was called.
\* The calls of a run are all made at one reading of the clock.
CallProcessVitalReading(reading) ==
    /\ IF reading.patientId \notin patients
       THEN /\ UNCHANGED <<vitalHistory, alertQueue, nextSeq, drainPrev, lastHandled,
                           appended>>
            /\ ret' = <<[known |-> FALSE, risk |-> 0, primaryAlert |-> FALSE,
                         trendAlert |-> FALSE, out |-> <<>>,
                         recentReadings |-> <<>>]>>
       ELSE \E history \in {addVitalReading(vitalHistory[reading.patientId][reading.type],
                                             reading)} :
            \E c1 \in {afterRisk(alertQueue, history, reading, now, nextSeq)} :
            \E c2 \in {afterTrend(c1, history, reading, now,
                                  nextSeq + (Len(c1) - Len(alertQueue)))} :
            LET n1 == nextSeq + (Len(c1) - Len(alertQueue))
                n2 == n1 + (Len(c2) - Len(c1))
            IN /\ vitalHistory' = [vitalHistory EXCEPT ![reading.patientId][reading.type] = history]
               /\ alertQueue' = c2
               /\ nextSeq' = n2
               /\ drainPrev' = IF n2 = nextSeq THEN drainPrev ELSE None
               /\ lastHandled' = IF n2 = nextSeq THEN lastHandled ELSE None
               /\ appended' = Append(appended, reading)
               /\ ret' = LET risk == assessRisk(reading.type, reading.value) IN
                          <<[known |-> TRUE,
                             risk |-> risk,
                             primaryAlert |-> n1 > nextSeq,
                             trendAlert |-> n2 > n1,
                             out |-> IF risk # LOW /\ n1 = nextSeq
                                     THEN <<filteredLine(reading, risk)>>
                                     ELSE <<>>,
                             recentReadings |-> IF risk # LOW
                                                THEN getRecentReadings(history, 10)
                                                ELSE <<>>]>>
    /\ call' = <<reading>>
    /\ UNCHANGED <<patients, devices, currentRiskLevel, totalAlertsProcessed,
                   falseAlarmsFiltered, now>>

\* processVitalReading in a run of at most MaxReadings readings
ProcessVitalReading(reading) ==
    /\ Len(appended) < MaxReadings
    /\ CallProcessVitalReading(reading)

\* HospitalScheduler::processVitalReading as a change of st, the histories,
\* the queue and the history variables of the model: the state after line
\* 431 (history), after lines 434-449 (c1) and after lines 451-456 (c2)
afterProcessVitalReading(st, reading, history, c1, c2) ==
    [vitalHistory |-> [st.vitalHistory EXCEPT
                          ![reading.patientId][reading.type] = history],
     alertQueue |-> c2,
     nextSeq |-> st.nextSeq + (Len(c2) - Len(st.alertQueue)),
     appended |-> Append(st.appended, reading)]

trendProcessVitalReading(st, reading, history, c1) ==
    afterProcessVitalReading(st, reading, history, c1,
        afterTrend(c1, history, reading, now, st.nextSeq + (Len(c1) - Len(st.alertQueue))))

riskProcessVitalReading(st, reading, history) ==
    trendProcessVitalReading(st, reading, history,
        afterRisk(st.alertQueue, history, reading, now, st.nextSeq))

processVitalReading(st, reading) ==
    IF reading.patientId \notin patients
    THEN st
    ELSE riskProcessVitalReading(st, reading,
             addVitalReading(st.vitalHistory[reading.patientId][reading.type], reading))

\* MedicalDevice::generateReading, rand() having given the value
generateReading(device, value) ==
    VitalReading(device.monitoredVital, value, device.assignedPatient)

RECURSIVE generatedReadings(_, _)
\* HospitalScheduler::simulateMonitoringCycle, the readings that the devices
\* from device i on generate; pick[i] is the sample that device i generates
generatedReadings(i, pick) ==
    IF i > Len(devices)
    THEN <<>>
    ELSE (IF devices[i].isActive
          THEN <<generateReading(devices[i],
                                 GeneratedSamples[devices[i].monitoredVital][pick[i]])>>
          ELSE <<>>) \o generatedReadings(i + 1, pick)

RECURSIVE processVitalReadings(_, _, _)
\* processVitalReading on each of readings in turn, from reading i on
processVitalReadings(st, readings, i) ==
    IF i > Len(readings)
    THEN st
    ELSE processVitalReadings(processVitalReading(st, readings[i]), readings, i + 1)

\* runInteractiveCycles, one cycle: simulateEmergency if the user asks for it
\* (emergency is then <<reading>>, else <<>>), then
\* HospitalScheduler::simulateMonitoringCycle.  call keeps the queue that
\* processAllAlerts found, ret what it handled.
SimulateMonitoringCycle(emergency) ==
    /\ Len(appended) + Len(emergency) + Len(devices) <= MaxCycleReadings
    /\ \E pick \in [1..Len(devices) -> {1, 2}] :
       \E st \in {processVitalReadings(
                      [vitalHistory |-> vitalHistory, alertQueue |-> alertQueue,
                       nextSeq |-> nextSeq, appended |-> appended],
                      emergency \o generatedReadings(1, pick), 1)} :
       \E r \in {processAllAlerts(st.alertQueue, <<>>)} :
          /\ vitalHistory' = st.vitalHistory
          /\ appended' = st.appended
          /\ nextSeq' = st.nextSeq
          /\ alertQueue' = r.queue
          /\ totalAlertsProcessed' = totalAlertsProcessed + Len(r.handled)
          /\ lastHandled' = lastHandledAfter(r.handled)
          /\ drainPrev' = drainPrevAfter(r.handled)
          /\ call' = <<[op |-> "simulateMonitoringCycle", queued |-> st.alertQueue]>>
          /\ ret' = <<[handled |-> r.handled, emptyCalls |-> 0]>>
    /\ UNCHANGED <<patients, devices, currentRiskLevel, falseAlarmsFiltered, now>>

\* HospitalScheduler::HospitalScheduler
Init ==
    /\ SchedulerNew
    /\ vitalHistory = NoHistory
    /\ appended = <<>>
    /\ call = None
    /\ ret = None

Next ==
    \/ \E pid \in NewPatientIds : AddPatient(pid)
    \/ \E r \in ReadingSamples : ProcessVitalReading(VitalReading(r[2], r[3], r[1]))
    \/ ProcessNextAlert

Spec == Init /\ [][Next]_vars

\* A patient's heart rate: PriorReadings readings close to 75, then
\* createEmergencyReading(1, patientId), a heart rate of 200
IngestHeartRate(v) ==
    /\ Len(appended) <= PriorReadings
    /\ v \in (IF Len(appended) < PriorReadings THEN ClusterValues ELSE {SpikeValue})
    /\ CallProcessVitalReading(VitalReading("HEART_RATE", v, 1))

NextSpike ==
    \/ \E pid \in NewPatientIds : AddPatient(pid)
    \/ \E v \in ClusterValues \cup {SpikeValue} : IngestHeartRate(v)

SpecSpike == Init /\ [][NextSpike]_vars

\* createEmergencyReading: 1 cardiac arrest, 2 respiratory failure, 3 severe
\* hypertension, 4 hypothermia; the values in tenths
createEmergencyReading(emergencyType, patientId) ==
    CASE emergencyType = 1 -> VitalReading("HEART_RATE", 2000, patientId)
      [] emergencyType = 2 -> VitalReading("OXYGEN_SATURATION", 750, patientId)
      [] emergencyType = 3 -> VitalReading("BLOOD_PRESSURE", 2200, patientId)
      [] emergencyType = 4 -> VitalReading("TEMPERATURE", 320, patientId)
      [] OTHER -> VitalReading("HEART_RATE", 2000, patientId)

\* simulateEmergency: getUserInput gives the patient id and a type from 1 to 4
EmergencyTypes == 1..4

SimulateEmergency(patientId, emergencyType) ==
    /\ Len(appended) < MaxEmergencyCalls
    /\ CallProcessVitalReading(createEmergencyReading(emergencyType, patientId))

NextEmergency ==
    \/ \E pid \in NewPatientIds : AddPatient(pid)
    \/ \E pid \in PatientIds, type \in EmergencyTypes : SimulateEmergency(pid, type)

SpecEmergency == Init /\ [][NextEmergency]_vars

\* The readings of a run in which the heart rate of patient 1 climbs
ClimbingReadings ==
    {VitalReading("HEART_RATE", ClimbingValue(k), 1) : k \in 1..MaxWindowReadings}
        \cup {VitalReading(r[2], r[3], r[1]) : r \in OtherReadings}

\* processVitalReading in such a run: the next heart rate of patient 1, or
\* the first reading of another patient or vital
IngestClimbing(reading) ==
    /\ Len(appended) < MaxWindowReadings
    /\ LET history == vitalHistory[reading.patientId][reading.type] IN
       IF reading.patientId = 1 /\ reading.type = "HEART_RATE"
       THEN reading.value = ClimbingValue(Len(history) + 1)
       ELSE history = <<>>
    /\ CallProcessVitalReading(reading)

NextClimbing ==
    \/ \E pid \in PatientIds : AddPatient(pid)
    \/ \E reading \in ClimbingReadings : IngestClimbing(reading)

SpecClimbing == Init /\ [][NextClimbing]_vars

\* processVitalReading in a run of heart rates of patient 1 that are far
\* below the normal range, normal, or far above it
IngestCritical(v) ==
    /\ Len(appended) < MaxCriticalReadings
    /\ CallProcessVitalReading(VitalReading("HEART_RATE", v, 1))

NextCritical ==
    \/ \E pid \in NewPatientIds : AddPatient(pid)
    \/ \E v \in CriticalValues : IngestCritical(v)

SpecCritical == Init /\ [][NextCritical]_vars

----------------------------------------------------------------------------
(* processVitalReading called by several threads on one HospitalScheduler.  *)
(* The function takes no lock, so the calls run statement by statement in   *)
(* any order.  call[t] is where thread t is in its call and the reading it  *)
(* was given; ret[t] is the last reading of the history that the false-     *)
(* alarm filter and detectTrend read in that call.                          *)

Threads == {1, 2}

\* readings handed to processVitalReading in such a run
MaxConcurrentReadings == 3

\* patient->addVitalReading(reading) while another thread is inside
\* processVitalReading for the same patient and vital: the push_back is not
\* ordered with the other thread's accesses of the vector, a data race.  Of
\* its outcomes the model keeps the reading appended, and the reading written
\* over the slot the other thread had filled.
racingAppends(history, reading, raced) ==
    {addVitalReading(history, reading)}
        \cup (IF raced /\ history # <<>>
              THEN {[history EXCEPT ![Len(history)] = reading]}
              ELSE {})

SameKey(t, reading) ==
    /\ call[t].pc # "idle"
    /\ call[t].reading.patientId = reading.patientId
    /\ call[t].reading.type = reading.type

LastReading(history) ==
    IF history = <<>> THEN None ELSE <<history[Len(history)]>>

\* thread t: processVitalReading, lines 427-431, the reading appended
EnterProcessVitalReading(t, reading) ==
    /\ call[t].pc = "idle"
    /\ Len(appended) < MaxConcurrentReadings
    /\ reading.patientId \in patients
    /\ \E history \in racingAppends(vitalHistory[reading.patientId][reading.type], reading,
                                    \E u \in Threads \ {t} : SameKey(u, reading)) :
          vitalHistory' = [vitalHistory EXCEPT ![reading.patientId][reading.type] = history]
    /\ appended' = Append(appended, reading)
    /\ call' = [call EXCEPT ![t] = [pc |-> "risk", reading |-> reading]]
    /\ ret' = [ret EXCEPT ![t] = [filterSaw |-> None, trendSaw |-> None]]
    /\ UNCHANGED <<patients, devices, currentRiskLevel, alertQueue, totalAlertsProcessed,
                   falseAlarmsFiltered, now, nextSeq, lastHandled, drainPrev>>

\* thread t: lines 434-449, the risk of the reading and the false-alarm filter
\* on the history as it is now
RiskProcessVitalReading(t) ==
    /\ call[t].pc = "risk"
    /\ \E reading \in {call[t].reading} :
       \E history \in {vitalHistory[reading.patientId][reading.type]} :
       \E c1 \in {afterRisk(alertQueue, history, reading, now, nextSeq)} :
          /\ alertQueue' = c1
          /\ nextSeq' = nextSeq + (Len(c1) - Len(alertQueue))
          /\ ret' = [ret EXCEPT ![t].filterSaw =
                        IF assessRisk(reading.type, reading.value) # LOW
                        THEN LastReading(getRecentReadings(history, 10))
                        ELSE None]
    /\ call' = [call EXCEPT ![t].pc = "trend"]
    /\ UNCHANGED <<patients, devices, vitalHistory, currentRiskLevel, totalAlertsProcessed,
                   falseAlarmsFiltered, now, lastHandled, drainPrev, appended>>

\* thread t: lines 451-457, detectTrend on the history as it is now
TrendProcessVitalReading(t) ==
    /\ call[t].pc = "trend"
    /\ \E reading \in {call[t].reading} :
       \E history \in {vitalHistory[reading.patientId][reading.type]} :
       \E c2 \in {afterTrend(alertQueue, history, reading, now, nextSeq)} :
          /\ alertQueue' = c2
          /\ nextSeq' = nextSeq + (Len(c2) - Len(alertQueue))
          /\ ret' = [ret EXCEPT ![t].trendSaw = LastReading(history)]
    /\ call' = [call EXCEPT ![t].pc = "idle"]
    /\ UNCHANGED <<patients, devices, vitalHistory, currentRiskLevel, totalAlertsProcessed,
                   falseAlarmsFiltered, now, lastHandled, drainPrev, appended>>

\* HospitalScheduler::HospitalScheduler, no thread in a call
InitConcurrent ==
    /\ SchedulerNew
    /\ vitalHistory = NoHistory
    /\ appended = <<>>
    /\ call = [t \in Threads |-> [pc |-> "idle", reading |-> None]]
    /\ ret = [t \in Threads |-> [filterSaw |-> None, trendSaw |-> None]]

\* addPatient is called before the threads start
AddPatientFirst(pid) ==
    /\ appended = <<>>
    /\ AddPatient(pid)

NextConcurrent ==
    \/ \E pid \in NewPatientIds : AddPatientFirst(pid)
    \/ \E t \in Threads, r \in ReadingSamples :
          EnterProcessVitalReading(t, VitalReading(r[2], r[3], r[1]))
    \/ \E t \in Threads : RiskProcessVitalReading(t)
    \/ \E t \in Threads : TrendProcessVitalReading(t)

SpecConcurrent == InitConcurrent /\ [][NextConcurrent]_vars

\* The scheduler as runInteractiveCycles drives it: monitoring cycles, some
\* with simulateEmergency's processVitalReading before them
NextCycle ==
    \/ \E pid \in NewPatientIds : AddPatient(pid)
    \/ \E emergency \in {<<>>} \cup {<<VitalReading(r[2], r[3], r[1])>> : r \in EmergencySamples} :
          SimulateMonitoringCycle(emergency)
    \/ ProcessAllAlerts

SpecCycle == Init /\ [][NextCycle]_vars

----------------------------------------------------------------------------
(* Claims about the order of dispatch *)

\* a is strictly more urgent than b: a smaller priority number, or the same
\* priority and a strictly earlier createdAt
MoreUrgent(a, b) ==
    \/ a.priority < b.priority
    \/ a.priority = b.priority /\ a.createdAt < b.createdAt

\* a step of processNextAlert that handled an alert
Handled == totalAlertsProcessed' = totalAlertsProcessed + 1

\* C1: alerts are dispatched in ascending priority number and, for equal
\* priority, ascending createdAt: the alert a processNextAlert handles is
\* preceded by no alert still in the queue, and in a run of processNextAlert
\* calls with no addAlert between them it does not precede the alert handled
\* just before it.
C1_DispatchOrder ==
    [][Handled =>
          /\ \A i \in 1..Len(alertQueue') :
                ~MoreUrgent(alertQueue'[i], lastHandled'[1].alert)
          /\ lastHandled # None => ~MoreUrgent(lastHandled'[1].alert, lastHandled[1].alert)
      ]_vars

\* C1 witness: a drain handled the CRITICAL alert created at 0 and then the
\* CRITICAL alert created at 2, although the latter was enqueued first, and a
\* HIGH alert created at 1, enqueued before both, is still waiting.
C1_Witness ==
    /\ lastHandled # None /\ drainPrev # None
    /\ drainPrev[1].alert.priority = CRITICAL /\ drainPrev[1].alert.createdAt = 0
    /\ lastHandled[1].alert.priority = CRITICAL /\ lastHandled[1].alert.createdAt = 2
    /\ lastHandled[1].alert.seq < drainPrev[1].alert.seq
    /\ Len(alertQueue) = 1
    /\ alertQueue[1].priority = HIGH /\ alertQueue[1].createdAt = 1
    /\ alertQueue[1].seq < lastHandled[1].alert.seq

\* C2: of two alerts with the same priority and the same createdAt, the one
\* enqueued first is dispatched first: the alert a processNextAlert handles
\* has no equal-keyed alert enqueued before it still in the queue.
C2_TiesByArrival ==
    [][Handled =>
          \A i \in 1..Len(alertQueue') :
             (/\ alertQueue'[i].priority = lastHandled'[1].alert.priority
              /\ alertQueue'[i].createdAt = lastHandled'[1].alert.createdAt)
             => alertQueue'[i].seq > lastHandled'[1].alert.seq
      ]_vars

----------------------------------------------------------------------------
(* Claims about the history of a patient's vital *)

\* the readings of appended that are of patient pid and vital v, in order
AppendedFor(pid, v) ==
    SelectSeq(appended, LAMBDA r : r.patientId = pid /\ r.type = v)

\* the last n elements of s, or all of s when it has fewer
LastOf(s, n) ==
    IF Len(s) <= n THEN s ELSE SubSeq(s, Len(s) - n + 1, Len(s))

\* C3: every per-(patient, vital) history holds at most 100 readings and is
\* the most recent min(k, 100) of the k readings appended for that key, in
\* insertion order.
C3_HistoryWindow ==
    \A pid \in PatientIds, v \in VitalSign :
        /\ Len(vitalHistory[pid][v]) <= 100
        /\ vitalHistory[pid][v] = LastOf(AppendedFor(pid, v), 100)

\* C3 witness: 102 heart-rate readings were appended among temperature ones;
\* the history holds 100 and the two oldest are gone.
C3_Witness ==
    /\ Len(AppendedFor(1, "HEART_RATE")) = 102
    /\ Len(AppendedFor(1, "TEMPERATURE")) > 0
    /\ Len(vitalHistory[1]["HEART_RATE"]) = 100
    /\ vitalHistory[1]["HEART_RATE"][1] = AppendedFor(1, "HEART_RATE")[3]

----------------------------------------------------------------------------
(* Claims about assessRisk; the values are in tenths *)

\* C4: assessRisk returns the first matching band of the threshold table;
\* temperature and respiratory rate are never CRITICAL.
C4_RiskBands ==
    ret # None =>
        LET t == call[1].type
            v == call[1].value
            r == ret[1]
        IN /\ t = "HEART_RATE" =>
                /\ (v < 300 \/ v > 1800) => r = CRITICAL
                /\ ((300 <= v /\ v < 500) \/ (1200 < v /\ v <= 1800)) => r = HIGH
           /\ t = "OXYGEN_SATURATION" =>
                /\ v < 850 => r = CRITICAL
                /\ (850 <= v /\ v < 920) => r = HIGH
           /\ t = "BLOOD_PRESSURE" =>
                /\ (v < 600 \/ v > 2000) => r = CRITICAL
                /\ ((600 <= v /\ v < 800) \/ (1600 < v /\ v <= 2000)) => r = HIGH
           /\ t = "TEMPERATURE" =>
                /\ (v < 350 \/ v > 390) => r = HIGH
                /\ ((350 <= v /\ v < 355) \/ (385 < v /\ v <= 390)) => r = MEDIUM
                /\ r # CRITICAL
           /\ t = "RESPIRATORY_RATE" =>
                /\ (v < 80 \/ v > 300) => r = HIGH
                /\ ((80 <= v /\ v < 100) \/ (250 < v /\ v <= 300)) => r = MEDIUM
                /\ r # CRITICAL

\* C4 witness: an oxygen saturation of 84.9 was classified CRITICAL.
C4_Witness ==
    /\ ret = <<CRITICAL>>
    /\ call[1].type = "OXYGEN_SATURATION"
    /\ call[1].value = 849

\* no band of the threshold table matches a value v of vital t
NoBand(t, v) ==
    CASE t = "HEART_RATE" -> 500 <= v /\ v <= 1200
      [] t = "OXYGEN_SATURATION" -> 920 <= v
      [] t = "BLOOD_PRESSURE" -> 800 <= v /\ v <= 1600
      [] t = "TEMPERATURE" -> 355 <= v /\ v <= 385
      [] t = "RESPIRATORY_RATE" -> 100 <= v /\ v <= 250

\* v lies in the normal range of vital t, its ends included
InNormalRange(t, v) ==
    CASE t = "HEART_RATE" -> 600 <= v /\ v <= 1000
      [] t = "BLOOD_PRESSURE" -> 900 <= v /\ v <= 1400
      [] t = "OXYGEN_SATURATION" -> 950 <= v /\ v <= 1000
      [] t = "TEMPERATURE" -> 361 <= v /\ v <= 372
      [] t = "RESPIRATORY_RATE" -> 120 <= v /\ v <= 200

\* C5: when no band matches, assessRisk returns MEDIUM outside the normal
\* range and LOW inside it; it returns LOW exactly when the value lies in the
\* inclusive normal range of its vital.
C5_NormalRange ==
    ret # None =>
        LET t == call[1].type
            v == call[1].value
            r == ret[1]
        IN /\ (NoBand(t, v) /\ ~InNormalRange(t, v)) => r = MEDIUM
           /\ (NoBand(t, v) /\ InNormalRange(t, v)) => r = LOW
           /\ (r = LOW) <=> InNormalRange(t, v)

\* C5 witness: a temperature of 37.3, just above the normal range and in no
\* band, was classified MEDIUM.
C5_Witness ==
    /\ ret = <<MEDIUM>>
    /\ call[1].type = "TEMPERATURE"
    /\ call[1].value = 373

----------------------------------------------------------------------------
(* Claims about detectTrend; the values are in tenths *)

\* the history detectTrend was applied to
TrendHistory == vitalHistory[1]["HEART_RATE"]

\* the sum of the four adjacent differences over the last 5 readings of h
FourDiffs(h) ==
    LET n == Len(h) IN
      (h[n].value - h[n - 1].value) + (h[n - 1].value - h[n - 2].value)
    + (h[n - 2].value - h[n - 3].value) + (h[n - 3].value - h[n - 4].value)

\* C6: detectTrend returns false whenever the history holds fewer than 5
\* readings, the empty history included.
C6_TrendShortHistory ==
    (ret # None /\ Len(TrendHistory) < 5) => ret[1] = FALSE

\* C6 witness: detectTrend returned false on 4 readings that rise by 16.1.
C6_Witness ==
    /\ ret = <<FALSE>>
    /\ Len(TrendHistory) = 4
    /\ TrendHistory[4].value - TrendHistory[1].value = 161

\* C7: with at least 5 readings detectTrend returns true exactly when the
\* absolute value of the mean of the four adjacent differences over the last
\* 5 readings is strictly greater than 2.0, that is when the absolute value
\* of their sum is greater than 8.0; older readings play no part.
C7_TrendMean ==
    (ret # None /\ Len(TrendHistory) >= 5) =>
        ret[1] = (Abs(FourDiffs(TrendHistory)) > 4 * 20)

----------------------------------------------------------------------------
(* Claims about isLikelyFalseAlarm *)

\* the vector isLikelyFalseAlarm was applied to
Window == call[1].recentReadings

\* The exact value of the reading of t tenths, a double, as a natural
\* number: in units of 2^-60 (every reading of the model is at least 1/256)
Exact(t) == BigShl(DoubleOf[t].m, DoubleOf[t].e + 60)

RECURSIVE ExactSum(_, _)
\* the sum of the exact values of w from element i on
ExactSum(w, i) ==
    IF i > Len(w) THEN <<>> ELSE BigAdd(Exact(w[i].value), ExactSum(w, i + 1))

RECURSIVE ExactSquares(_, _)
\* the sum of their squares
ExactSquares(w, i) ==
    IF i > Len(w) THEN <<>>
    ELSE BigAdd(BigMul(Exact(w[i].value), Exact(w[i].value)), ExactSquares(w, i + 1))

\* With n = Len(w), S the sum and Q the sum of the squares of the values of
\* w, the population variance of w is (n * Q - S^2) / n^2, the deviation of
\* the last value v from the mean is (n * v - S) / n, and the square of its
\* z-score is (n * v - S)^2 / (n * Q - S^2).
VarianceN2(w) ==
    BigSub(BigMulSmall(ExactSquares(w, 1), Len(w)),
           BigMul(ExactSum(w, 1), ExactSum(w, 1)))

LastDeviationN(w) ==
    LET nv == BigMulSmall(Exact(w[Len(w)].value), Len(w))
        S == ExactSum(w, 1)
    IN IF BigCmp(nv, S) >= 0 THEN BigSub(nv, S) ELSE BigSub(S, nv)

\* the population standard deviation of w is exactly 0
ZeroDeviation(w) == VarianceN2(w) = <<>>

\* the z-score z of the last value of w has 4 * z^2 < t2
ZScoreBelow(w, t2) ==
    BigCmp(BigMulSmall(BigMul(LastDeviationN(w), LastDeviationN(w)), 4),
           BigMulSmall(VarianceN2(w), t2)) < 0

\* C8: isLikelyFalseAlarm returns false whenever the window has fewer than 5
\* readings and whenever its standard deviation is exactly 0, for every
\* priority.
C8_NoJudgement ==
    (ret # None /\ (Len(Window) < 5 \/ ZeroDeviation(Window))) => ret[1] = FALSE

\* C9: with at least 5 readings and a nonzero standard deviation,
\* isLikelyFalseAlarm returns true exactly when |latest - mean| / std is
\* strictly below 2.5 for a CRITICAL candidate and strictly below 1.5 for any
\* other: 4 * z^2 < 25, respectively 4 * z^2 < 9.
C9_ZScore ==
    (ret # None /\ Len(Window) >= 5 /\ ~ZeroDeviation(Window)) =>
        ret[1] = ZScoreBelow(Window, IF call[1].alert.priority = CRITICAL THEN 25 ELSE 9)

----------------------------------------------------------------------------
(* Claims about processVitalReading *)

\* a step of processVitalReading for a registered patient
Ingested == Len(appended') = Len(appended) + 1

\* the places in the queue after the step of the alerts the step added
AddedAt == {i \in 1..Len(alertQueue') : alertQueue'[i].seq > nextSeq}

\* those of them that are primary alerts: their message is the reading's
PrimaryAt == {i \in AddedAt : alertQueue'[i].message[2] = " reading: "}

\* C10: in processVitalReading for a registered patient, a reading classified
\* above LOW adds exactly one primary alert, with the classified priority, the
\* patient id and the vital, when the false-alarm filter returns false on the
\* last 10 readings of the history; it adds no primary alert when the filter
\* returns true, nor when the reading is classified LOW.
C10_PrimaryAlert ==
    [][Ingested =>
          LET r == call'[1]
              risk == assessRisk(r.type, r.value)
              window == getRecentReadings(vitalHistory'[r.patientId][r.type], 10)
              filtered == isLikelyFalseAlarm([priority |-> risk], window)
          IN IF risk # LOW /\ ~filtered
             THEN /\ Cardinality(PrimaryAt) = 1
                  /\ \A i \in PrimaryAt :
                        /\ alertQueue'[i].priority = risk
                        /\ alertQueue'[i].patientId = r.patientId
                        /\ alertQueue'[i].relatedVital = r.type
                  /\ Len(alertQueue') - Len(alertQueue) = Cardinality(AddedAt)
             ELSE PrimaryAt = {}
      ]_vars

\* C10 witness: the last reading, the fifth of its history, was classified
\* CRITICAL and the filter held it back: the step added the trend alert alone,
\* after three earlier readings of the history had each added a primary alert.
C10_Witness ==
    /\ ret # None /\ ret[1].known
    /\ ret[1].risk = CRITICAL
    /\ ~ret[1].primaryAlert /\ ret[1].trendAlert
    /\ Len(vitalHistory[call[1].patientId][call[1].type]) = 5
    /\ nextSeq = 4
    /\ \E i \in 1..Len(alertQueue) :
          /\ alertQueue[i].seq = 4
          /\ alertQueue[i].message = trendMessage(call[1])

\* a step of processVitalReading in which the false-alarm filter held back
\* the candidate alert of the reading
Suppressed ==
    Ingested /\ ret'[1].risk # LOW /\ ~ret'[1].primaryAlert

\* C11: each time the false-alarm filter suppresses the candidate alert of an
\* ingest, the false-alarms-filtered counter (getFalseAlarmsFiltered) goes up
\* by exactly 1.
C11_FilteredCounter ==
    [][Suppressed => falseAlarmsFiltered' = falseAlarmsFiltered + 1]_vars

\* the places in the queue after the step of the trend alerts the step added
TrendAt == {i \in AddedAt : alertQueue'[i].message[1] = trendMessage(call'[1])[1]}

\* C12: in every processVitalReading for a registered patient the history
\* detectTrend is run on ends with the new reading; when detectTrend returns
\* true the step adds exactly one trend alert, MEDIUM, of the reading's patient
\* and vital, whatever the reading's priority and whether or not the primary
\* alert was suppressed; when it returns false the step adds no trend alert.
C12_TrendAlert ==
    [][Ingested =>
          LET r == call'[1]
              history == vitalHistory'[r.patientId][r.type]
          IN /\ history # <<>>
             /\ history[Len(history)] = r
             /\ IF detectTrend(history)
                THEN /\ Cardinality(TrendAt) = 1
                     /\ \A i \in TrendAt :
                           /\ alertQueue'[i].priority = MEDIUM
                           /\ alertQueue'[i].patientId = r.patientId
                           /\ alertQueue'[i].relatedVital = r.type
                     /\ Cardinality(AddedAt) = Cardinality(PrimaryAt) + 1
                ELSE TrendAt = {}
      ]_vars

\* C12 witness: the last reading, the fifth of its history, was classified
\* LOW and added a trend alert, the only alert of the step.
C12_Witness ==
    /\ ret # None /\ ret[1].known
    /\ ret[1].risk = LOW
    /\ ret[1].trendAlert
    /\ Len(vitalHistory[call[1].patientId][call[1].type]) = 5
    /\ \E i \in 1..Len(alertQueue) :
          /\ alertQueue[i].seq = nextSeq
          /\ alertQueue[i].priority = MEDIUM
          /\ alertQueue[i].message = trendMessage(call[1])

\* a call of processVitalReading for a patient id that is not registered
UnknownCall ==
    /\ ~Ingested
    /\ <<call', ret'>> # <<call, ret>>
    /\ ~ret'[1].known

\* what the caller of processVitalReading gets from a call: the function
\* returns void and throws nothing, so the lines it wrote
Outcome(r) == r.out

\* C13: a processVitalReading for a patient id with no registered patient
\* classifies nothing and leaves every history, the queue and the counters
\* unchanged, and its caller gets an outcome that differs from the outcome of
\* a successful ingest (here: of the call before it, for a registered patient).
C13_UnknownSubject ==
    [][UnknownCall =>
          /\ ret'[1].risk \notin Priority
          /\ UNCHANGED <<vitalHistory, alertQueue, totalAlertsProcessed,
                         falseAlarmsFiltered, currentRiskLevel>>
          /\ (ret # None /\ ret[1].known) => Outcome(ret'[1]) # Outcome(ret[1])
      ]_vars

----------------------------------------------------------------------------
(* Claims about the AlertProcessor under a running clock *)

\* a call of processNextAlert or processAllAlerts that found the queue empty
EmptyCall ==
    /\ ret' # None
    /\ ret'[1].emptyCalls = EmptyCallsBefore + 1

\* C14: processNextAlert on an empty queue changes nothing: the queue stays
\* empty, no alert is handled and totalAlertsProcessed keeps its value, at
\* each of any number of calls in a row after the queue has been drained.
C14_EmptyQueueNoOp ==
    [][(EmptyCall /\ call'[1].op = "processNextAlert") =>
          /\ alertQueue = <<>>
          /\ alertQueue' = <<>>
          /\ ret'[1].handled = <<>>
          /\ UNCHANGED <<totalAlertsProcessed, lastHandled, nextSeq, now>>
      ]_vars

\* C14 witness: two alerts were added and handled, and processNextAlert has
\* since been called MaxEmptyCalls times in a row on the empty queue.
C14_Witness ==
    /\ call # None /\ call[1].op = "processNextAlert"
    /\ ret[1].emptyCalls = MaxEmptyCalls
    /\ alertQueue = <<>>
    /\ nextSeq = 2
    /\ totalAlertsProcessed = 2

----------------------------------------------------------------------------
(* Claims about processAllAlerts and the monitoring cycle *)

\* a step of processAllAlerts, called on its own or by simulateMonitoringCycle
Drained ==
    /\ patients' = patients
    /\ call' # None
    /\ "op" \in DOMAIN call'[1]

\* C15: processAllAlerts returns with the queue empty, having handed to
\* handleAlert every alert that was in the queue at the call exactly once, in
\* the order of priority, and having increased totalAlertsProcessed by the
\* number of alerts that were queued; so the queue is empty at the end of
\* every simulateMonitoringCycle.
C15_DrainAll ==
    [][Drained =>
          LET queued == call'[1].queued
              handled == ret'[1].handled
          IN /\ alertQueue' = <<>>
             /\ totalAlertsProcessed' = totalAlertsProcessed + Len(queued)
             /\ Len(handled) = Len(queued)
             /\ \A i \in 1..Len(queued) :
                   Cardinality({j \in 1..Len(handled) : handled[j].alert = queued[i]}) = 1
             /\ \A j \in 1..(Len(handled) - 1) :
                   handled[j].alert.priority <= handled[j + 1].alert.priority
      ]_vars

\* C15 witness: a monitoring cycle has ended; its processAllAlerts found four
\* alerts of three priorities, the first of them queued by simulateEmergency
\* before the devices were read, and handled them all.
C15_Witness ==
    /\ call # None /\ "op" \in DOMAIN call[1]
    /\ call[1].op = "simulateMonitoringCycle"
    /\ Len(call[1].queued) = 4
    /\ Cardinality({call[1].queued[i].priority : i \in 1..4}) = 3
    /\ \E i \in 1..4 : call[1].queued[i].seq = 1 /\ Len(appended) = 5
    /\ Len(ret[1].handled) = 4
    /\ alertQueue = <<>>

----------------------------------------------------------------------------
(* Claims about the response time of an alert *)

\* the budget of a priority, in ms
Budget(p) ==
    CASE p = CRITICAL -> 2000
      [] p = HIGH -> 30000
      [] p = MEDIUM -> 300000
      [] p = LOW -> 3600000

\* a step that handed alerts to handleAlert: ret' holds what it logged
Dequeued == totalAlertsProcessed' > totalAlertsProcessed

\* the time, in ticks, between the making of the alert and its handling
Elapsed(h) == now - h.alert.createdAt

\* C16 as stated: at dequeue an alert is reported within its requirement
\* exactly when the time elapsed since its createdAt is at most the budget of
\* its priority (2000, 30000, 300000 and 3600000 ms, inclusive).
C16_SlaElapsed ==
    [][Dequeued =>
          \A j \in 1..Len(ret'[1].handled) :
             LET h == ret'[1].handled[j] IN
             h.withinTimeRequirement <=> (Elapsed(h) <= Budget(h.alert.priority) * TicksPerMs)
      ]_vars

\* C16 amended: at dequeue an alert is reported within its requirement exactly
\* when the time elapsed since its createdAt, in whole milliseconds, the
\* fraction of a millisecond dropped, is at most the budget of its priority.
C16_SlaWholeMs ==
    [][Dequeued =>
          \A j \in 1..Len(ret'[1].handled) :
             LET h == ret'[1].handled[j] IN
             /\ h.responseTime = Elapsed(h) \div TicksPerMs
             /\ h.withinTimeRequirement <=>
                   (Elapsed(h) \div TicksPerMs <= Budget(h.alert.priority))
      ]_vars

\* C16 witness: one processAllAlerts has handled a CRITICAL alert 3000 ms after
\* its making, reported late, and a CRITICAL alert 1500 ms after its making,
\* reported within the requirement.
C16_Witness ==
    /\ ret # None
    /\ Len(ret[1].handled) = 2
    /\ \E i, j \in 1..2 :
          /\ ret[1].handled[i].alert.priority = CRITICAL
          /\ ret[1].handled[i].responseTime = 3000
          /\ ~ret[1].handled[i].withinTimeRequirement
          /\ ret[1].handled[j].alert.priority = CRITICAL
          /\ ret[1].handled[j].responseTime = 1500
          /\ ret[1].handled[j].withinTimeRequirement

----------------------------------------------------------------------------
(* Claims about a reading far from its history *)

\* C17: a heart rate of 200 for a registered patient whose heart-rate history
\* is 5 readings close to 75 is classified CRITICAL, the false-alarm filter
\* returns false for it and the CRITICAL heart-rate alert is in the queue.
C17_SpikeEnqueued ==
    (/\ ret # None /\ ret[1].known
     /\ call[1].value = SpikeValue
     /\ Len(vitalHistory[1]["HEART_RATE"]) = PriorReadings + 1)
    => /\ ret[1].risk = CRITICAL
       /\ ret[1].primaryAlert
       /\ ret[1].out = <<>>
       /\ \E i \in 1..Len(alertQueue) :
             /\ alertQueue[i].priority = CRITICAL
             /\ alertQueue[i].relatedVital = "HEART_RATE"
             /\ alertQueue[i].message = generateAlertMessage(call[1], CRITICAL)

----------------------------------------------------------------------------
(* Claims about the risk level of a patient *)

\* C18: after an ingest that admits an alert for a patient, the patient's
\* current risk level is the most urgent priority among the patient's
\* unacknowledged alerts: it is not the initial LOW, and no unacknowledged
\* alert of the patient in the queue is more urgent than it.
C18_CurrentRisk ==
    [][(Ingested /\ AddedAt # {}) =>
          LET pid == call'[1].patientId
              open == {i \in 1..Len(alertQueue') :
                          /\ alertQueue'[i].patientId = pid
                          /\ ~alertQueue'[i].acknowledged}
          IN /\ currentRiskLevel'[pid] # LOW
             /\ \A i \in open : currentRiskLevel'[pid] <= alertQueue'[i].priority
      ]_vars

----------------------------------------------------------------------------
(* Claims about the life of an alert in the queue *)

\* the alerts of a queue, by the number of their addAlert call
Seqs(c) == {c[i].seq : i \in 1..Len(c)}

\* the alerts the step handed to handleAlert
HandledNow ==
    IF Dequeued THEN {ret'[1].handled[j].alert.seq : j \in 1..Len(ret'[1].handled)}
    ELSE {}

\* C19: an alert in the queue stays there, as it is, until processNextAlert
\* removes it: the alerts that leave the queue in a step are those the step
\* handed to handleAlert, each once and whether late or not; what enters is
\* a new alert, never one that was there before; no alert is twice in the
\* queue.
C19_QueuedUntilDequeued ==
    [][/\ Seqs(alertQueue) \ Seqs(alertQueue') = HandledNow
       /\ Dequeued => Cardinality(HandledNow) = Len(ret'[1].handled)
       /\ \A n \in Seqs(alertQueue') \ Seqs(alertQueue) : n > nextSeq
       /\ Cardinality(Seqs(alertQueue')) = Len(alertQueue')
       /\ \A i \in 1..Len(alertQueue'), j \in 1..Len(alertQueue) :
             alertQueue'[i].seq = alertQueue[j].seq => alertQueue'[i] = alertQueue[j]
      ]_vars

\* C19 witness: processNextAlert has handled an alert that was late, the
\* first of two alerts; it is out of the queue and the other is still there.
C19_Witness ==
    /\ call # None /\ call[1].op = "processNextAlert"
    /\ Len(call[1].queued) = 2
    /\ Len(ret[1].handled) = 1
    /\ ~ret[1].handled[1].withinTimeRequirement
    /\ Len(alertQueue) = 1
    /\ alertQueue[1].seq # ret[1].handled[1].alert.seq
    /\ totalAlertsProcessed = 1

----------------------------------------------------------------------------
(* Claims about processVitalReading called by several threads *)

\* C20: ingests of one patient and vital do not interleave: while a thread is
\* between its append and its reads of the history, no step of another thread
\* changes that history, and the history that the thread's false-alarm filter
\* and detectTrend read ends with the thread's own reading.
C20_SerializedPerKey ==
    [][\A t \in Threads :
          /\ (call[t].pc # "idle" /\ call'[t] = call[t]) =>
                vitalHistory'[call[t].reading.patientId][call[t].reading.type]
                   = vitalHistory[call[t].reading.patientId][call[t].reading.type]
          /\ ret'[t].filterSaw \in {None, <<call'[t].reading>>}
          /\ ret'[t].trendSaw \in {None, <<call'[t].reading>>}
      ]_vars

----------------------------------------------------------------------------
(* Claims about simulateEmergency *)

\* simulateEmergency has passed its reading to processVitalReading, for a
\* registered patient
EmergencyIngested ==
    /\ Len(appended') = Len(appended) + 1
    /\ \E type \in EmergencyTypes :
          call'[1] = createEmergencyReading(type, call'[1].patientId)

\* C21: each of the four scenarios of simulateEmergency (cardiac arrest,
\* respiratory failure, severe hypertension, hypothermia) makes a reading
\* that assessRisk classifies as CRITICAL.
C21_EmergencyCritical ==
    [][EmergencyIngested => ret'[1].risk = CRITICAL]_vars

----------------------------------------------------------------------------
(* Claims about the readings handed to the false-alarm filter *)

\* the readings of s that are of patient pid and vital v, in order
ReadingsFor(s, pid, v) ==
    SelectSeq(s, LAMBDA r : r.patientId = pid /\ r.type = v)

\* processVitalReading has appended a reading and called isLikelyFalseAlarm
FilterCalled == Ingested /\ ret'[1].risk # LOW

\* C22: the vector handed to isLikelyFalseAlarm during an ingest is the
\* min(10, n) most recent readings of the reading's patient and vital, in
\* insertion order and taken after the append: its last element is the
\* reading being ingested, and no reading in it is of another vital or patient.
C22_FilterWindow ==
    [][FilterCalled =>
          LET reading == call'[1]
              recentReadings == ret'[1].recentReadings
              all == ReadingsFor(appended', reading.patientId, reading.type)
          IN /\ Len(recentReadings) = IF Len(all) < 10 THEN Len(all) ELSE 10
             /\ recentReadings = LastOf(all, 10)
             /\ recentReadings[Len(recentReadings)] = reading
             /\ \A i \in 1..Len(recentReadings) :
                   /\ recentReadings[i].patientId = reading.patientId
                   /\ recentReadings[i].type = reading.type
      ]_vars

\* C22 witness: the eleventh heart rate of patient 1 has been ingested, a
\* blood pressure of the same patient and a heart rate of patient 2 having
\* come among the ten before it; the filter got those ten heart rates.
C22_Witness ==
    /\ call # None /\ ret # None
    /\ call[1] = VitalReading("HEART_RATE", ClimbingValue(11), 1)
    /\ Len(vitalHistory[1]["HEART_RATE"]) = 11
    /\ Len(appended) = 13
    /\ appended[2].value = ClimbingValue(2)
    /\ \E i, j \in 3..12 : appended[i].type = "BLOOD_PRESSURE" /\ appended[j].patientId = 2
    /\ Len(ret[1].recentReadings) = 10
    /\ ret[1].recentReadings[1].value = ClimbingValue(2)

----------------------------------------------------------------------------
(* Claims about the direction of a trend *)

\* the four adjacent differences over the last 5 readings of h, oldest first
LastDiffs(h) ==
    [k \in 1..4 |-> h[Len(h) - 4 + k].value - h[Len(h) - 5 + k].value]

\* C23: whenever detectTrend returns true, the last 5 readings show a
\* sustained change in one direction: the four adjacent differences are all
\* positive or all negative.
C23_TrendDirection ==
    (ret # None /\ ret[1] = TRUE) =>
        \/ \A k \in 1..4 : LastDiffs(TrendHistory)[k] > 0
        \/ \A k \in 1..4 : LastDiffs(TrendHistory)[k] < 0

----------------------------------------------------------------------------
(* Claims about CRITICAL readings in a short history *)

\* the history, after the append, of the key of the reading ingested
KeyHistory == vitalHistory'[call'[1].patientId][call'[1].type]

\* a reading classified CRITICAL has been appended to a history that now
\* holds 5, 6 or 7 readings, not all of one value
CriticalInShortHistory ==
    /\ Ingested
    /\ ret'[1].risk = CRITICAL
    /\ Len(KeyHistory) \in 5..7
    /\ \E i, j \in 1..Len(KeyHistory) : KeyHistory[i].value # KeyHistory[j].value

----------------------------------------------------------------------------
(* Claims about the counters of the AlertProcessor *)

\* C25: in every reachable state the number of alerts ever enqueued by
\* addAlert (nextSeq) is totalAlertsProcessed plus the number of alerts in
\* the queue, and totalAlertsProcessed never decreases.
C25_AlertsConserved ==
    /\ [](nextSeq = totalAlertsProcessed + Len(alertQueue))
    /\ [][totalAlertsProcessed' >= totalAlertsProcessed]_vars

\* C25 witness: of two alerts enqueued, one has been processed and one is
\* still in the queue.
C25_Witness ==
    /\ nextSeq = 2
    /\ totalAlertsProcessed = 1
    /\ Len(alertQueue) = 1

----------------------------------------------------------------------------
(* Claims about the alerts in the queue *)

\* C26: in every state reached through processVitalReading, every alert in
\* the queue has priority CRITICAL, HIGH or MEDIUM, never LOW, is not
\* acknowledged, and names a registered patient.
C26_QueuedAlerts ==
    \A i \in 1..Len(alertQueue) :
        /\ alertQueue[i].priority \in {CRITICAL, HIGH, MEDIUM}
        /\ alertQueue[i].acknowledged = FALSE
        /\ alertQueue[i].patientId \in patients

\* C26 witness: processVitalReading has just returned from a reading of a
\* patient who is not registered; readings classified LOW, HIGH and CRITICAL
\* were ingested before, and the queue holds a CRITICAL and a HIGH alert.
C26_Witness ==
    /\ call # None /\ ret # None
    /\ call[1].patientId \notin patients /\ ~ret[1].known
    /\ \E i \in 1..Len(appended) : assessRisk(appended[i].type, appended[i].value) = LOW
    /\ {alertQueue[i].priority : i \in 1..Len(alertQueue)} = {CRITICAL, HIGH}

====
